---- MODULE Spec2Model ----
(***************************************************************************)
(* Model of the dataconv query pipeline: the query parser                  *)
(* (src/src/parser.py over src/src/grammar.py) and the data processor      *)
(* (src/src/processor.py: apply_path, evaluate_condition,                  *)
(* apply_conditions, process_data).                                        *)
(*                                                                         *)
(* Python values are tagged records [k |-> kind, v |-> payload].  Numbers  *)
(* are kept in halves so that 30, 30.0 and 30.5 are all representable:     *)
(* an int n is stored as n, a float x is stored as 2*x.  A dict is a       *)
(* sequence of [key, val] pairs in insertion order, a list is a sequence.  *)
(* A string that is handed from the parser to the processor (a path        *)
(* expression) is a sequence of lexemes.                                   *)
(***************************************************************************)
EXTENDS Integers, Sequences, FiniteSets, TLC

\* ------------------------------------------------------------------ bounds
MaxRecs == 2
MaxPathSegs == 3
MaxConds == 2
MaxPathNames == 2
MaxQueryConds == 2
MaxElems == 3
MaxOps == 2

\* ------------------------------------------------------------ Python values
None == [k |-> "null"]
PyBool(b) == [k |-> "bool", v |-> b]
PyInt(n) == [k |-> "int", v |-> n]
PyFloat(h) == [k |-> "float", v |-> h]
PyStr(s) == [k |-> "str", v |-> s]
PyDict(pairs) == [k |-> "dict", v |-> pairs]
PyList(items) == [k |-> "list", v |-> items]
KV(key, val) == [key |-> key, val |-> val]

\* a call either returns a value or raises an exception
Return(x) == [ok |-> TRUE, val |-> x]
Raise(e, m) == [ok |-> FALSE, err |-> e, msg |-> m]

IsDict(x) == x.k = "dict"
IsList(x) == x.k = "list"

\* isinstance(x, (int, float)): bool is a subclass of int
IsNumber(x) == x.k \in {"bool", "int", "float"}

\* float() that drops the fraction
ToFloat_truncates(x) ==
    IF x.k = "bool" THEN (IF x.v THEN 2 ELSE 0)
    ELSE IF x.k = "int" THEN 2 * x.v
    ELSE x.v - (x.v % 2)

\* float(x) for a number, in halves
ToFloat(x) ==
    IF x.k = "bool" THEN (IF x.v THEN 2 ELSE 0)
    ELSE IF x.k = "int" THEN 2 * x.v
    ELSE x.v

\* the strings of the model in lexicographic order (str.__lt__)
StrOrder == <<"Jane", "John", "active", "x">>
StrRank(s) == CHOOSE i \in 1..Len(StrOrder) : StrOrder[i] = s

HasKey(d, key) == \E i \in 1..Len(d.v) : d.v[i].key = key
\* dict.get(key): None when the key is missing
DictGet(d, key) ==
    IF HasKey(d, key)
    THEN d.v[CHOOSE i \in 1..Len(d.v) : d.v[i].key = key].val
    ELSE None

\* item.get(field) with a Python object as the key: dict keys are
\* strings, so a key that is not a str is never found
ItemGet(d, field) == IF field.k = "str" THEN DictGet(d, field.v) ELSE None

\* an equality under which a bool equals nothing but a bool
RECURSIVE PyEq_bool_apart(_, _)
PyEq_bool_apart(a, b) ==
    IF (a.k = "bool") # (b.k = "bool") THEN FALSE
    ELSE IF IsNumber(a) /\ IsNumber(b) THEN ToFloat(a) = ToFloat(b)
    ELSE IF a.k # b.k THEN FALSE
    ELSE IF a.k = "null" THEN TRUE
    ELSE IF a.k = "str" THEN a.v = b.v
    ELSE IF a.k = "list" THEN
        /\ Len(a.v) = Len(b.v)
        /\ \A i \in 1..Len(a.v) : PyEq_bool_apart(a.v[i], b.v[i])
    ELSE
        /\ Len(a.v) = Len(b.v)
        /\ \A i \in 1..Len(a.v) :
              /\ HasKey(b, a.v[i].key)
              /\ PyEq_bool_apart(a.v[i].val, DictGet(b, a.v[i].key))
\* native ==: numbers by value, containers element-wise, dicts regardless
\* of insertion order, values of different kinds unequal
RECURSIVE PyEq(_, _)
PyEq(a, b) ==
    IF IsNumber(a) /\ IsNumber(b) THEN ToFloat(a) = ToFloat(b)
    ELSE IF a.k # b.k THEN FALSE
    ELSE IF a.k = "null" THEN TRUE
    ELSE IF a.k = "str" THEN a.v = b.v
    ELSE IF a.k = "list" THEN
        /\ Len(a.v) = Len(b.v)
        /\ \A i \in 1..Len(a.v) : PyEq(a.v[i], b.v[i])
    ELSE
        /\ Len(a.v) = Len(b.v)
        /\ \A i \in 1..Len(a.v) :
              /\ HasKey(b, a.v[i].key)
              /\ PyEq(a.v[i].val, DictGet(b, a.v[i].key))

\* native ordering a <op> b: "true", "false" or "TypeError"
OrdInt(o, x, y) ==
    IF o = ">" THEN x > y
    ELSE IF o = "<" THEN x < y
    ELSE IF o = ">=" THEN x >= y
    ELSE x <= y

Verdict(b) == IF b THEN "true" ELSE "false"

\* an ordering that answers true where the operand types do not compare
RECURSIVE PyOrd_incompatible_true(_, _, _)
PyOrd_incompatible_true(o, a, b) ==
    IF IsNumber(a) /\ IsNumber(b) THEN Verdict(OrdInt(o, ToFloat(a), ToFloat(b)))
    ELSE IF a.k = "str" /\ b.k = "str"
        THEN Verdict(OrdInt(o, StrRank(a.v), StrRank(b.v)))
    ELSE IF a.k = "list" /\ b.k = "list" THEN
        LET n == IF Len(a.v) < Len(b.v) THEN Len(a.v) ELSE Len(b.v)
            diff == {i \in 1..n : ~PyEq(a.v[i], b.v[i])}
        IN  IF diff = {} THEN Verdict(OrdInt(o, Len(a.v), Len(b.v)))
            ELSE LET i == CHOOSE j \in diff : \A m \in diff : j <= m
                 IN  PyOrd_incompatible_true(o, a.v[i], b.v[i])
    ELSE "true"
RECURSIVE PyOrd(_, _, _)
PyOrd(o, a, b) ==
    IF IsNumber(a) /\ IsNumber(b) THEN Verdict(OrdInt(o, ToFloat(a), ToFloat(b)))
    ELSE IF a.k = "str" /\ b.k = "str"
        THEN Verdict(OrdInt(o, StrRank(a.v), StrRank(b.v)))
    ELSE IF a.k = "list" /\ b.k = "list" THEN
        LET n == IF Len(a.v) < Len(b.v) THEN Len(a.v) ELSE Len(b.v)
            diff == {i \in 1..n : ~PyEq(a.v[i], b.v[i])}
        IN  IF diff = {} THEN Verdict(OrdInt(o, Len(a.v), Len(b.v)))
            ELSE LET i == CHOOSE j \in diff : \A m \in diff : j <= m
                 IN  PyOrd(o, a.v[i], b.v[i])
    ELSE "TypeError"

\* --------------------------------------------------- evaluate_condition
SupportedOps == {"==", "!=", ">", "<", ">=", "<="}

\* a None guard whose == holds as soon as one side is None
evaluate_condition_any_null(value, op, expected) ==
    IF value.k = "null" \/ expected.k = "null" THEN
        IF op = "==" THEN Return(TRUE)
        ELSE IF op = "!=" THEN Return(FALSE)
        ELSE Return(FALSE)
    ELSE IF op = "==" THEN Return(PyEq(value, expected))
    ELSE IF op = "!=" THEN Return(~PyEq(value, expected))
    ELSE IF op \in {">", "<", ">=", "<="} THEN
        Return(PyOrd(op, value, expected) = "true")
    ELSE Raise("ProcessorError", <<"Unsupported operator: ", op>>)

evaluate_condition(value, op, expected) ==
    IF value.k = "null" \/ expected.k = "null" THEN
        IF op = "==" THEN Return(PyEq(value, expected))
        ELSE IF op = "!=" THEN Return(~PyEq(value, expected))
        ELSE Return(FALSE)
    ELSE IF op = "==" THEN Return(PyEq(value, expected))
    ELSE IF op = "!=" THEN Return(~PyEq(value, expected))
    ELSE IF op \in {">", "<", ">=", "<="} THEN
        Return(PyOrd(op, value, expected) = "true")
    ELSE Raise("ProcessorError", <<"Unsupported operator: ", op>>)

\* ----------------------------------------------------- apply_conditions
Condition(field, op, value) == [field |-> field, op |-> op, value |-> value]

\* an inner loop that keeps an item as soon as one condition holds
RECURSIVE MatchesAny(_, _)
MatchesAny(item, conds) ==
    IF conds = <<>> THEN Return(FALSE)
    ELSE LET cond == Head(conds)
             r == evaluate_condition(ItemGet(item, cond.field), cond.op, cond.value)
         IN  IF ~r.ok THEN r
             ELSE IF r.val THEN Return(TRUE)
             ELSE MatchesAny(item, Tail(conds))

\* the inner loop over the conditions of one item, with its break:
\* Return(TRUE) when all conditions hold, Return(FALSE) at the first one
\* that fails, the exception when evaluate_condition raises first
RECURSIVE MatchesAll(_, _)
MatchesAll(item, conds) ==
    IF conds = <<>> THEN Return(TRUE)
    ELSE LET cond == Head(conds)
             r == evaluate_condition(ItemGet(item, cond.field), cond.op, cond.value)
         IN  IF ~r.ok THEN r
             ELSE IF ~r.val THEN Return(FALSE)
             ELSE MatchesAll(item, Tail(conds))

\* the outer loop: filtered_results grows in item order, non-dict items
\* are skipped, an exception ends the loop
RECURSIVE FilterItems(_, _, _)
FilterItems(items, conds, filtered_results) ==
    IF items = <<>> THEN Return(PyList(filtered_results))
    ELSE LET item == Head(items)
         IN  IF ~IsDict(item) THEN FilterItems(Tail(items), conds, filtered_results)
             ELSE LET m == MatchesAll(item, conds)
                  IN  IF ~m.ok THEN m
                      ELSE FilterItems(Tail(items), conds,
                               IF m.val THEN Append(filtered_results, item)
                               ELSE filtered_results)

\* apply_conditions without the early return for an empty condition list
apply_conditions_always_filters(data, conditions) ==
    LET items == IF IsList(data) THEN data.v
                 ELSE IF IsDict(data) THEN <<data>> ELSE <<>>
    IN  FilterItems(items, conditions, <<>>)

apply_conditions(data, conditions) ==
    IF conditions = <<>> THEN Return(data)
    ELSE LET items == IF IsList(data) THEN data.v
                      ELSE IF IsDict(data) THEN <<data>> ELSE <<>>
         IN  FilterItems(items, conditions, <<>>)

\* ------------------------------------------------------------ apply_path
\* A path expression is a sequence of lexemes; no path is None.
PathStr(lexemes) == [k |-> "path", v |-> lexemes]

\* identifiers of the path language that occur in the model
PathNames == {"users", "n", "a", "b"}
\* str() of the parse-tree node of the array_wildcard rule
TreeRepr == "Tree(Token('RULE', 'array_wildcard'), [])"

\* a lexer without the DOUBLEDOT token
JLexSingleDots(s) == s

\* jsonpath_ng lexer: two adjacent dots are one DOUBLEDOT token
RECURSIVE JLex(_)
JLex(s) ==
    IF s = <<>> THEN <<>>
    ELSE IF Len(s) >= 2 /\ s[1] = "." /\ s[2] = "."
        THEN <<"..">> \o JLex(SubSeq(s, 3, Len(s)))
    ELSE <<s[1]>> \o JLex(Tail(s))

\* jsonpath_ng parser on the tokens of the model: fields (an identifier
\* or *) separated by . or .., after the leading $
JValid(toks) ==
    /\ Len(toks) % 2 = 1
    /\ toks[1] = "$"
    /\ \A i \in 2..Len(toks) :
          IF i % 2 = 0 THEN toks[i] \in {".", ".."}
          ELSE toks[i] \in PathNames \cup {"*"}

\* '.' binds tighter than '..': the expression is a left-nested chain of
\* Descendants whose operands are Child chains
RECURSIVE JGroups(_, _, _)
JGroups(toks, i, cur) ==
    IF i > Len(toks) THEN <<cur>>
    ELSE IF toks[i] = ".." THEN <<cur>> \o JGroups(toks, i + 2, <<toks[i + 1]>>)
    ELSE JGroups(toks, i + 2, Append(cur, toks[i + 1]))

RECURSIVE DictValues(_)
DictValues(pairs) ==
    IF pairs = <<>> THEN <<>> ELSE <<Head(pairs).val>> \o DictValues(Tail(pairs))

\* Fields.find on one datum: a named field of a dict, or for * every
\* value of a dict in key order; anything that is not a dict has no fields
FieldsFind(d, f) ==
    IF ~IsDict(d) THEN <<>>
    ELSE IF f = "*" THEN DictValues(d.v)
    ELSE IF HasKey(d, f) THEN <<DictGet(d, f)>>
    ELSE <<>>

RECURSIVE FieldStep(_, _)
FieldStep(ds, f) ==
    IF ds = <<>> THEN <<>> ELSE FieldsFind(Head(ds), f) \o FieldStep(Tail(ds), f)

\* Child.find along a chain of fields
RECURSIVE ChainFind(_, _)
ChainFind(ds, chain) ==
    IF chain = <<>> THEN ds
    ELSE ChainFind(FieldStep(ds, Head(chain)), Tail(chain))

Children(d) ==
    IF IsList(d) THEN d.v ELSE IF IsDict(d) THEN DictValues(d.v) ELSE <<>>

\* Descendants.find: match_recursively on a datum and on a list of data
RECURSIVE MatchRec(_, _)
RECURSIVE MatchRecAll(_, _)
MatchRec(d, chain) ==
    ChainFind(<<d>>, chain) \o MatchRecAll(Children(d), chain)
MatchRecAll(ds, chain) ==
    IF ds = <<>> THEN <<>>
    ELSE MatchRec(Head(ds), chain) \o MatchRecAll(Tail(ds), chain)

RECURSIVE GroupsFind(_, _)
GroupsFind(cur, groups) ==
    IF groups = <<>> THEN cur
    ELSE GroupsFind(MatchRecAll(cur, Head(groups)), Tail(groups))

\* jsonpath_expr.find(data): the matched values in encounter order
JFind(data, toks) ==
    LET g == JGroups(toks, 2, <<>>)
    IN  GroupsFind(ChainFind(<<data>>, g[1]), Tail(g))

\* a collapse that never unwraps a single match
apply_path_always_list(data, path) ==
    IF path.k = "null" \/ path.v = <<>> THEN Return(data)
    ELSE LET toks == JLex(<<"$", ".">> \o path.v)
         IN  IF ~JValid(toks)
             THEN Raise("ProcessorError",
                        <<"Invalid JSONPath expression '">> \o path.v \o <<"'">>)
             ELSE Return(PyList(JFind(data, toks)))

apply_path(data, path) ==
    IF path.k = "null" \/ path.v = <<>> THEN Return(data)
    ELSE LET toks == JLex(<<"$", ".">> \o path.v)
         IN  IF ~JValid(toks)
             THEN Raise("ProcessorError",
                        <<"Invalid JSONPath expression '">> \o path.v \o <<"'">>)
             ELSE LET results == JFind(data, toks)
                  IN  IF results = <<>> THEN Return(PyList(<<>>))
                      ELSE IF Len(results) = 1 THEN Return(results[1])
                      ELSE Return(PyList(results))

\* ---------------------------------------------------------- process_data
\* a coercion that forgets to wrap a lone dict
CoerceDropsMapping(extracted) ==
    IF IsList(extracted) THEN extracted ELSE PyList(<<>>)

\* lines 257-258: the path result in the form apply_conditions filters
Coerce(extracted) ==
    IF IsList(extracted) THEN extracted
    ELSE IF IsDict(extracted) THEN PyList(<<extracted>>)
    ELSE PyList(<<>>)

\* ------------------------------------------------ query grammar and lexer
\* A query text is a sequence of lexemes separated by white space, which
\* the grammar ignores (grammar.py:56).
Tok(type, text) == [type |-> type, text |-> text]

Keywords == {"from", "to", "where", "and", "true", "false", "null"}
NameWords == Keywords \cup {"users", "n", "age", "active", "a", "b", "json", "yaml"}
FileWords == {"a.json", "b.yaml", "out.toml", "out.xml", "out.csv", "temp.json"}
NumberWords == {"25", "30.5"}
QuotedWords == {"\"active\"", "\"my data.json\""}

\* NAME (grammar.py:51) matches the leading identifier of a file word and
\* leaves the rest of the word to the lexer
NamePrefix(w) ==
    CASE w = "a.json" -> "a" [] w = "b.yaml" -> "b" [] w = "temp.json" -> "temp"
      [] OTHER -> "out"
NameRest(w) ==
    CASE w \in {"a.json", "temp.json"} -> <<".", "json">>
      [] w = "b.yaml" -> <<".", "yaml">> [] w = "out.toml" -> <<".", "toml">>
      [] w = "out.xml" -> <<".", "xml">> [] OTHER -> <<".", "csv">>

Literal(t) ==
    CASE t = "FROM" -> "from" [] t = "TO" -> "to" [] t = "WHERE" -> "where"
      [] t = "AND" -> "and" [] t = "TRUE" -> "true" [] t = "FALSE" -> "false"
      [] t = "NULL" -> "null" [] t = "LSQB" -> "[" [] t = "RSQB" -> "]"
      [] t = "DOT" -> "." [] t = "STAR" -> "*"
      [] OTHER -> ""

\* whether terminal t matches at the start of word w
TermMatches(t, w) ==
    CASE t = "FILE" -> w \in NameWords \cup FileWords \cup NumberWords \cup {"."}
      [] t = "NAME" -> w \in NameWords \cup FileWords
      [] t = "ESCAPED_STRING" -> w \in QuotedWords
      [] t = "SIGNED_NUMBER" -> w \in NumberWords
      [] t = "OP" -> w \in {"==", "!=", ">", "<", ">=", "<="}
      [] OTHER -> w = Literal(t)

\* the terminals the LALR parser can take in each state (contextual lexer)
Accepts(ps) ==
    CASE ps = "start" -> {"FROM"}
      [] ps = "file" -> {"FILE", "ESCAPED_STRING"}
      [] ps = "after_file" -> {"LSQB", "TO", "WHERE", "$END"}
      [] ps = "path_first" -> {"NAME"}
      [] ps = "path_sep" -> {"DOT", "RSQB"}
      [] ps = "path_seg" -> {"NAME", "STAR"}
      [] ps = "path_close" -> {"RSQB"}
      [] ps = "after_bracket" -> {"TO", "WHERE", "$END"}
      [] ps = "field" -> {"NAME"}
      [] ps = "op" -> {"OP"}
      [] ps = "value" -> {"ESCAPED_STRING", "SIGNED_NUMBER", "TRUE", "FALSE", "NULL"}
      [] ps = "after_value" -> {"AND", "$END"}

\* the next token of the input in parser state ps, and the input left
ScanAt(ps, rest) ==
    IF rest = <<>> THEN [type |-> "$END", text |-> "", rest |-> <<>>]
    ELSE LET w == Head(rest)
             cands == {t \in Accepts(ps) \ {"$END"} : TermMatches(t, w)}
         IN  IF cands = {}
             THEN [type |-> "UnexpectedCharacters", text |-> w, rest |-> rest]
             ELSE LET t == CHOOSE c \in cands : TRUE
                  IN  IF t = "NAME" /\ w \in FileWords
                      THEN [type |-> t, text |-> NamePrefix(w),
                            rest |-> NameRest(w) \o Tail(rest)]
                      ELSE [type |-> t, text |-> w, rest |-> Tail(rest)]

\* a lexer that skips a character it does not know
ScanSkipsUnknown(ps, rest) ==
    ScanAt(ps, SelectSeq(rest, LAMBDA w : w # "#"))

Scan(ps, rest) == ScanAt(ps, rest)

\* LALR transitions of the grammar (grammar.py:30-48); nfiles is the
\* number of file_path nodes begun
Goto(ps, nfiles, type) ==
    CASE ps = "start" /\ type = "FROM" -> "file"
      [] ps = "file" /\ type \in {"FILE", "ESCAPED_STRING"} -> "after_file"
      [] ps = "after_file" /\ type = "LSQB" -> "path_first"
      [] ps \in {"after_file", "after_bracket"} /\ type = "TO" /\ nfiles = 1 -> "file"
      [] ps \in {"after_file", "after_bracket"} /\ type = "WHERE" /\ nfiles = 2 -> "field"
      [] ps \in {"after_file", "after_bracket"} /\ type = "$END" /\ nfiles = 2 -> "accept"
      [] ps = "path_first" /\ type = "NAME" -> "path_sep"
      [] ps = "path_sep" /\ type = "DOT" -> "path_seg"
      [] ps = "path_sep" /\ type = "RSQB" -> "after_bracket"
      [] ps = "path_seg" /\ type = "NAME" -> "path_sep"
      [] ps = "path_seg" /\ type = "STAR" -> "path_close"
      [] ps = "path_close" /\ type = "RSQB" -> "after_bracket"
      [] ps = "field" /\ type = "NAME" -> "op"
      [] ps = "op" /\ type = "OP" -> "value"
      [] ps = "value" /\ type \in {"ESCAPED_STRING", "SIGNED_NUMBER",
                                   "TRUE", "FALSE", "NULL"} -> "after_value"
      [] ps = "after_value" /\ type = "AND" -> "field"
      [] ps = "after_value" /\ type = "$END" -> "accept"
      [] OTHER -> "error"

\* ------------------------------------------------------- QueryTransformer
\* a parse-tree node that no transformer method replaces
Tree(rule, children) == [k |-> "tree", data |-> rule, children |-> children]

\* token.value[1:-1] and float(token.value) on the words of the model
Unquote(w) == IF w = "\"active\"" THEN "active" ELSE "my data.json"
FloatOf(w) == IF w = "25" THEN 50 ELSE 61

\* the terminal callbacks NAME, ESCAPED_STRING, SIGNED_NUMBER, TRUE,
\* FALSE, NULL; a FILE token has no callback and is used through str()
TokenValue(tok) ==
    CASE tok.type = "NAME" -> PyStr(tok.text)
      [] tok.type = "ESCAPED_STRING" -> PyStr(Unquote(tok.text))
      [] tok.type = "SIGNED_NUMBER" -> PyFloat(FloatOf(tok.text))
      [] tok.type = "TRUE" -> PyBool(TRUE)
      [] tok.type = "FALSE" -> PyBool(FALSE)
      [] tok.type = "NULL" -> None
      [] OTHER -> PyStr(tok.text)

\* str(c) of a child of path_expression
StrOf(c) == IF c.k = "str" THEN c.v ELSE TreeRepr

RECURSIVE JoinDots(_)
JoinDots(parts) ==
    IF Len(parts) <= 1 THEN parts
    ELSE <<Head(parts), ".">> \o JoinDots(Tail(parts))

\* the children of path_expression: the NAMEs, then the array_wildcard
\* node when the wildcard is written; "." and "*" are anonymous tokens
\* and are not kept in the tree
PathChildren(toks) ==
    [i \in 1..Len(toks) |->
        IF toks[i].type = "NAME" THEN TokenValue(toks[i])
        ELSE Tree("array_wildcard", <<>>)]

path_expression(children) ==
    LET strs == [i \in 1..Len(children) |-> StrOf(children[i])]
        parts == SelectSeq(strs, LAMBDA x : x # ".")
    IN  IF parts # <<>> /\ parts[Len(parts)] = "*"
        THEN PathStr(JoinDots(
                 SubSeq(parts, 1, Len(parts) - 2)
                 \o <<parts[Len(parts) - 1] \o "*">>))
        ELSE PathStr(JoinDots(parts))

\* file_path with an empty path string where no bracket is written
file_path_empty_path(ftok, bracket) ==
    [file |-> IF ftok.type = "ESCAPED_STRING" THEN Unquote(ftok.text) ELSE ftok.text,
     path |-> IF bracket.present THEN path_expression(PathChildren(bracket.toks))
              ELSE PathStr(<<>>)]

\* file_path: str(children[0]) and the optional path_bracket
file_path(ftok, bracket) ==
    [file |-> IF ftok.type = "ESCAPED_STRING" THEN Unquote(ftok.text) ELSE ftok.text,
     path |-> IF bracket.present THEN path_expression(PathChildren(bracket.toks))
              ELSE None]

\* condition: children are the field node, the OP string, the value node
condition(ctoks) ==
    [field |-> Tree("field", <<TokenValue(ctoks[1])>>),
     op |-> ctoks[2].text,
     value |-> Tree("value", <<TokenValue(ctoks[3])>>)]

condition_list(conds) == [i \in 1..Len(conds) |-> condition(conds[i])]

query(ast) ==
    [source |-> file_path(ast.files[1], ast.brackets[1]),
     dest |-> file_path(ast.files[2], ast.brackets[2]),
     conditions |-> condition_list(ast.conds)]

EmptyAst == [files |-> <<>>, brackets |-> <<>>, conds |-> <<>>, cur |-> <<>>]
NoBracket == [present |-> FALSE, toks |-> <<>>]

\* the parse tree after shifting token tok in state ps
Shift(ast, ps, tok) ==
    CASE tok.type \in {"FILE", "ESCAPED_STRING"} /\ ps = "file" ->
            [ast EXCEPT !.files = Append(@, Tok(tok.type, tok.text)),
                        !.brackets = Append(@, NoBracket)]
      [] tok.type = "LSQB" -> [ast EXCEPT !.cur = <<>>]
      [] tok.type = "NAME" /\ ps \in {"path_first", "path_seg"} ->
            [ast EXCEPT !.cur = Append(@, Tok(tok.type, tok.text))]
      [] tok.type = "STAR" ->
            [ast EXCEPT !.cur = Append(@, Tok("array_wildcard", ""))]
      [] tok.type = "RSQB" ->
            [ast EXCEPT !.brackets[Len(ast.brackets)] =
                            [present |-> TRUE, toks |-> ast.cur],
                        !.cur = <<>>]
      [] tok.type = "NAME" /\ ps = "field" ->
            [ast EXCEPT !.cur = <<Tok(tok.type, tok.text)>>]
      [] tok.type = "OP" ->
            [ast EXCEPT !.cur = Append(@, Tok(tok.type, tok.text))]
      [] ps = "value" ->
            [ast EXCEPT !.conds = Append(@, Append(ast.cur, Tok(tok.type, tok.text))),
                        !.cur = <<>>]
      [] OTHER -> ast

\* ------------------------------------------------------------ validation
\* float("nan") and float("inf"); a finite float is PyFloat(h)
NaN == [k |-> "nan"]
Inf == [k |-> "inf"]
\* datetime.date, datetime.time, datetime.datetime, decimal.Decimal and
\* a value of a type no validator names (a set)
PyDate == [k |-> "date"]
PyTime == [k |-> "time"]
PyDateTime == [k |-> "datetime"]
PyDecimal == [k |-> "Decimal"]
PySet == [k |-> "set"]

\* type(x).__name__
TypeOf(x) ==
    CASE x.k \in {"nan", "inf"} -> "float"
      [] x.k = "null" -> "NoneType"
      [] OTHER -> x.k

\* isinstance(x, t): bool is a subclass of int, datetime of date
IsInstance(x, t) ==
    \/ TypeOf(x) = t
    \/ TypeOf(x) = "bool" /\ t = "int"
    \/ TypeOf(x) = "datetime" /\ t = "date"

IsInstanceAny(x, types) == \E t \in types : IsInstance(x, t)

\* math.isfinite with only infinities taken for non-finite
isfinite_nan_passes(x) == x.k # "inf"

\* math.isfinite on a float
isfinite(x) == x.k = "float"

\* a dict key that is not a str: the int keys 1 and 2, written here as
\* f"{key}" renders them; every other key of the model is a str
NonStringKeys == {"1", "2"}
IsStrKey(key) == key \notin NonStringKeys

\* str(i) of a list index
IndexStr(i) == <<"0", "1", "2", "3", "4", "5", "6", "7", "8", "9">>[i + 1]

ValidationIssue(path, message, severity) ==
    [path |-> path, message |-> message, severity |-> severity]

\* what the four _walk methods differ in: the leaf types of the first
\* branch, whether floats are checked for finiteness, the severity of a
\* non-string key, the homogeneity check of lists, and whether a value
\* of any other type is an error
JSONRules ==
    [leaves |-> {"NoneType", "int", "str", "bool"}, floats |-> TRUE,
     key |-> "error", homogeneous |-> FALSE, other |-> TRUE]
TOMLRules ==
    [leaves |-> {"NoneType", "int", "str", "bool", "datetime", "date", "time"},
     floats |-> TRUE, key |-> "error", homogeneous |-> TRUE, other |-> TRUE]
YAMLRules ==
    [leaves |-> {"NoneType", "int", "str", "bool", "datetime", "date", "Decimal"},
     floats |-> TRUE, key |-> "warning", homogeneous |-> FALSE, other |-> TRUE]
XMLRules ==
    [leaves |-> {}, floats |-> FALSE, key |-> "error", homogeneous |-> FALSE,
     other |-> FALSE]

\* all(isinstance(elem, type(value[0])) for elem in value)
SameType(items) ==
    \A i \in 1..Len(items) : IsInstance(items[i], TypeOf(items[1]))

\* the issues one _walk adds, in the order it adds them
RECURSIVE Walk(_, _, _)
RECURSIVE WalkItems(_, _, _, _)
RECURSIVE WalkElems(_, _, _, _)
Walk(rules, value, path) ==
    IF IsInstanceAny(value, rules.leaves) THEN <<>>
    ELSE IF rules.floats /\ TypeOf(value) = "float"
    THEN IF isfinite(value) THEN <<>>
         ELSE <<ValidationIssue(path, "non-finite float", "error")>>
    ELSE IF IsDict(value) THEN WalkItems(rules, value.v, path, 1)
    ELSE IF IsList(value)
    THEN (IF rules.homogeneous /\ value.v # <<>> /\ ~SameType(value.v)
          THEN <<ValidationIssue(path, "not the same type", "warning")>>
          ELSE <<>>)
         \o WalkElems(rules, value.v, path, 1)
    ELSE IF rules.other
    THEN <<ValidationIssue(path, "not a valid value", "error")>>
    ELSE <<>>

\* for key, subvalue in value.items()
WalkItems(rules, pairs, path, i) ==
    IF i > Len(pairs) THEN <<>>
    ELSE (IF IsStrKey(pairs[i].key) THEN <<>>
          ELSE <<ValidationIssue(path, "non-string key", rules.key)>>)
         \o Walk(rules, pairs[i].val, path \o <<".", pairs[i].key>>)
         \o WalkItems(rules, pairs, path, i + 1)

\* for i, subvalue in enumerate(value)
WalkElems(rules, items, path, i) ==
    IF i > Len(items) THEN <<>>
    ELSE Walk(rules, items[i], path \o <<"[", IndexStr(i - 1), "]">>)
         \o WalkElems(rules, items, path, i + 1)

\* JSONValidator._walk with the homogeneity warning of TOMLValidator
JSONValidator_walk_homogeneous(value, path) ==
    Walk([JSONRules EXCEPT !.homogeneous = TRUE], value, path)

JSONValidator_walk(value, path) == Walk(JSONRules, value, path)
TOMLValidator_walk(value, path) == Walk(TOMLRules, value, path)

\* YAMLValidator._walk reporting a non-string key as an error
YAMLValidator_walk_key_error(value, path) ==
    Walk([YAMLRules EXCEPT !.key = "error"], value, path)

YAMLValidator_walk(value, path) == Walk(YAMLRules, value, path)
XMLValidator_walk(value, path) == Walk(XMLRules, value, path)

\* ValidationResult: add_error and add_warning append to separate lists
ValidationResult(issues) ==
    [errors |-> SelectSeq(issues, LAMBDA x : x.severity = "error"),
     warnings |-> SelectSeq(issues, LAMBDA x : x.severity = "warning")]

is_valid(r) == Len(r.errors) = 0

JSONValidator_validate(data) == ValidationResult(JSONValidator_walk(data, <<"$">>))
TOMLValidator_validate(data) == ValidationResult(TOMLValidator_walk(data, <<"$">>))
YAMLValidator_validate(data) == ValidationResult(YAMLValidator_walk(data, <<"$">>))
XMLValidator_validate(data) == ValidationResult(XMLValidator_walk(data, <<"$">>))

\* a format tag: a member of the FileFormat enum, or what a caller can
\* pass in its place: a plain string, None, a member of another enum
FileFormat(name) == [k |-> "FileFormat", v |-> name]
FileFormats == {FileFormat(n) : n \in {"json", "toml", "yaml", "xml"}}
HasValue(tag) == tag.k \in {"FileFormat", "Enum"}

validate(data, file_format) ==
    IF ~HasValue(file_format)
    THEN Raise("AttributeError", <<file_format.k, " object has no attribute 'value'">>)
    ELSE IF file_format = FileFormat("json") THEN Return(JSONValidator_validate(data))
    ELSE IF file_format = FileFormat("toml") THEN Return(TOMLValidator_validate(data))
    ELSE IF file_format = FileFormat("yaml") THEN Return(YAMLValidator_validate(data))
    ELSE IF file_format = FileFormat("xml") THEN Return(XMLValidator_validate(data))
    ELSE Raise("ValidationError", <<"Unsupported file format: ", file_format.v>>)

\* ------------------------------------------------------------------- cli
\* QueryParser.parse as one call: the parser run to its end
RECURSIVE ParseFrom(_, _, _)
ParseFrom(ps, rest, ast) ==
    LET tok == Scan(ps, rest)
        ns == Goto(ps, Len(ast.files), tok.type)
    IN  IF ns = "accept" THEN Return(query(ast))
        ELSE IF ns = "error"
        THEN Raise("ParseError", <<"Invalid query syntax: ", tok.type>>)
        ELSE ParseFrom(ns, tok.rest, Shift(ast, ps, tok))

parse(text) == ParseFrom("start", text, EmptyAst)

\* path.suffix.lower().lstrip(".") of the file names of the model
Extension(file) ==
    CASE file \in {"a.json", "my data.json", "temp.json"} -> "json"
      [] file = "b.yaml" -> "yaml"
      [] file = "out.toml" -> "toml"
      [] file = "out.xml" -> "xml"
      [] OTHER -> "csv"

detect_format(file) ==
    IF Extension(file) \in {"json", "toml", "yaml", "xml"}
    THEN Return(FileFormat(Extension(file)))
    ELSE IF Extension(file) = "yml" THEN Return(FileFormat("yaml"))
    ELSE Raise("UnsupportedFormatError", <<"Unsupported file format: ", Extension(file)>>)

\* what the file system holds under a name: nothing, text that does not
\* parse, or the tree its text parses to
Missing == [k |-> "missing"]
Corrupt == [k |-> "corrupt"]

smart_load(file, held) ==
    IF held = Missing THEN Raise("FileLoadError", <<"File not found: ", file>>)
    ELSE IF ~detect_format(file).ok THEN detect_format(file)
    ELSE IF held = Corrupt THEN Raise("FileLoadError", <<"Error loading file ", file>>)
    ELSE Return(held)

\* a call of a collaborator, as the handlers make them
Call(name, arg, errors) == [fn |-> name, arg |-> arg, errors |-> errors]

\* smart_save: the format is detected, then the file is written
smart_save(file, writable) ==
    IF ~detect_format(file).ok THEN detect_format(file)
    ELSE IF ~writable THEN Raise("FileSaveError", <<"Error saving file ", file>>)
    ELSE Return(None)

\* the dict root given to list data for TOML and XML
WrapRoot(data, target_format) ==
    IF ~IsList(data) THEN data
    ELSE IF target_format.v = "toml" THEN PyDict(<<KV("root", data)>>)
    ELSE IF target_format.v = "xml"
    THEN PyDict(<<KV("root", PyDict(<<KV("item", data)>>))>>)
    ELSE data

\* truth value of a parsed path: None and "" are false
Truthy(path) == path.k # "null" /\ path.v # <<>>

\* a query path that wraps every path result, lists included
query_data_always_wraps(data, source_path, conditions) ==
    LET pathed == IF Truthy(source_path) THEN apply_path(data, source_path)
                  ELSE Return(data)
    IN  IF ~pathed.ok THEN pathed
        ELSE IF conditions # <<>>
        THEN apply_conditions(PyList(<<pathed.val>>), conditions)
        ELSE pathed

\* the data a query obtains from the loaded tree (cli.py:179-187): the
\* path is applied when it is given, the conditions when there are any,
\* to the path result itself when it is a list and to [result] otherwise
query_data(data, source_path, conditions) ==
    LET pathed == IF Truthy(source_path) THEN apply_path(data, source_path)
                  ELSE Return(data)
    IN  IF ~pathed.ok THEN pathed
        ELSE IF conditions # <<>>
        THEN apply_conditions(IF IsList(pathed.val) THEN pathed.val
                              ELSE PyList(<<pathed.val>>), conditions)
        ELSE pathed
\* str(current_file) as the words of a query
FileText(file) == IF file = "my data.json" THEN <<"my", "data.json">> ELSE <<file>>

\* ------------------------------------------------------- input universes
RECURSIVE SeqsUpTo(_, _)
SeqsUpTo(S, n) ==
    IF n = 0 THEN {<<>>}
    ELSE LET shorter == SeqsUpTo(S, n - 1)
         IN  shorter \cup {Append(q, x) : q \in shorter, x \in S}

RecN1 == PyDict(<<KV("n", PyInt(1))>>)
RecN2 == PyDict(<<KV("n", PyInt(2))>>)
RecJohn == PyDict(<<KV("age", PyInt(30)), KV("active", PyBool(TRUE))>>)
RecJane == PyDict(<<KV("age", PyInt(25)), KV("active", PyBool(TRUE))>>)
RecBob == PyDict(<<KV("age", PyFloat(61)), KV("active", PyBool(FALSE))>>)
RecStr == PyDict(<<KV("n", PyInt(1)), KV("age", PyStr("x"))>>)
RecordPool == {RecN1, RecN2, RecJohn, RecJane, RecBob, RecStr}
RecNull == PyDict(<<KV("age", None), KV("active", PyBool(TRUE))>>)
ItemPool == RecordPool \cup {RecNull, PyInt(30)}

TreeNested ==
    PyDict(<<KV("a", PyDict(<<KV("n", PyInt(1)),
                               KV("users", PyDict(<<KV("n", PyInt(2))>>))>>)),
             KV("n", PyInt(3))>>)
Trees ==
    {PyDict(<<KV("users", PyList(l))>>) : l \in SeqsUpTo(RecordPool, MaxRecs)}
    \cup {PyDict(<<KV("users", r)>>) : r \in RecordPool}
    \cup {PyDict(<<KV("users", PyStr("x"))>>), PyDict(<<>>), TreeNested}
TreesSmall ==
    {PyDict(<<KV("users", PyList(<<RecJohn, RecJane>>))>>),
     PyDict(<<KV("users", PyList(<<RecJohn>>))>>),
     PyDict(<<KV("users", PyList(<<RecStr, RecBob>>))>>),
     PyDict(<<KV("users", RecJohn)>>),
     PyDict(<<KV("users", RecJohn), KV("n", RecN2)>>),
     PyDict(<<KV("users", PyInt(30))>>),
     RecJohn, PyDict(<<>>), TreeNested}

\* a path text is its segments joined by dots; a segment is a name, the
\* wildcard, an opening bracket, or empty
Segments == {"users", "n", "a", "*", "[", ""}
RECURSIVE JoinSegs(_)
JoinSegs(segs) ==
    IF segs = <<>> THEN <<>>
    ELSE LET h == IF Head(segs) = "" THEN <<>> ELSE <<Head(segs)>>
         IN  IF Len(segs) = 1 THEN h ELSE h \o <<".">> \o JoinSegs(Tail(segs))
Paths ==
    {None} \cup {PathStr(JoinSegs(segs)) : segs \in SeqsUpTo(Segments, MaxPathSegs) \ {<<>>}}
PathsSmall ==
    {None, PathStr(<<"users">>), PathStr(<<"users", ".", "*">>),
     PathStr(<<"users", ".", "n">>), PathStr(<<"n">>),
     PathStr(<<"a", ".", ".", "n">>), PathStr(<<"[">>)}

Ops == SupportedOps \cup {"~="}
EvalValues ==
    {None, PyBool(TRUE), PyBool(FALSE), PyInt(30), PyInt(25), PyInt(1),
     PyInt(0), PyFloat(60), PyFloat(61), PyFloat(51), PyStr("x"),
     PyStr("John"), PyDict(<<>>), PyDict(<<KV("n", PyInt(1))>>),
     PyList(<<PyInt(1)>>)}
CondPool ==
    {Condition(PyStr("age"), ">=", PyFloat(52)),
     Condition(PyStr("active"), "==", PyBool(TRUE)),
     Condition(PyStr("age"), "~=", PyFloat(60)),
     Condition(PyStr("age"), "==", None),
     Condition(PyStr("age"), "<", PyStr("x")),
     Condition(PyStr("n"), "!=", PyFloat(2)),
     Condition(PyStr("active"), "==", PyFloat(2))}
CondLists == SeqsUpTo(CondPool, MaxConds)

\* the sentences of the grammar (grammar.py:30-48) over the words of the
\* model: from file_path to file_path, with an optional where clause
QueryNames == <<"users", "n", "a", "b">>
Bracket(names, wild) ==
    <<"[">> \o JoinDots(names) \o (IF wild THEN <<".", "*">> ELSE <<>>) \o <<"]">>
Prefixes(seq, n) ==
    {SubSeq(seq, 1, k) : k \in 1..(IF n < Len(seq) THEN n ELSE Len(seq))}
SourceBrackets ==
    {<<>>} \cup {Bracket(ns, w) : ns \in Prefixes(QueryNames, MaxPathNames),
                                  w \in BOOLEAN}
DestBrackets == {<<>>, Bracket(<<"n">>, FALSE)}
QueryConds ==
    <<<<"age", ">", "25">>, <<"active", "==", "true">>, <<"n", "<", "null">>,
      <<"age", ">=", "30.5">>, <<"active", "!=", "false">>,
      <<"age", "<=", "\"active\"">>>>
\* the runs of at most n consecutive elements of seq
Runs(seq, n) ==
    UNION {{SubSeq(seq, i, i + k - 1) : i \in 1..(Len(seq) - k + 1)} : k \in 1..n}
RECURSIVE JoinAnd(_)
JoinAnd(cs) ==
    IF cs = <<>> THEN <<>>
    ELSE IF Len(cs) = 1 THEN Head(cs)
    ELSE Head(cs) \o <<"and">> \o JoinAnd(Tail(cs))
WhereClauses ==
    {<<>>} \cup {<<"where">> \o JoinAnd(cs) :
                    cs \in Runs(QueryConds, MaxQueryConds)}
ValidQueries ==
    {<<"from", sf>> \o sb \o <<"to", "b.yaml">> \o db \o wc :
        sf \in {"a.json", "\"my data.json\""}, sb \in SourceBrackets,
        db \in DestBrackets, wc \in WhereClauses}

\* a sentence with one lexeme dropped, or one lexeme put in
Drop(q, i) == SubSeq(q, 1, i - 1) \o SubSeq(q, i + 1, Len(q))
Insert(q, i, w) == SubSeq(q, 1, i - 1) \o <<w>> \o SubSeq(q, i, Len(q))
Queries ==
    ValidQueries
    \cup {Drop(q, i) : q \in ValidQueries, i \in 1..4}
    \cup UNION {{Drop(q, i) : i \in 5..Len(q)} : q \in ValidQueries}
    \cup UNION {{Insert(q, i, w) : i \in 1..(Len(q) + 1), w \in {"#", "b.yaml"}} :
                   q \in ValidQueries}

\* trees handed to the validators
Leaves ==
    {None, PyBool(TRUE), PyInt(1), PyStr("s"), PyFloat(3), NaN, Inf,
     PyDate, PyTime, PyDateTime, PyDecimal, PySet}
ElemLeaves == {PyInt(1), PyBool(TRUE), PyStr("s"), NaN, PyDate, PyDateTime}
ValLists == {PyList(l) : l \in SeqsUpTo(ElemLeaves, MaxElems)}
ValTrees ==
    Leaves
    \cup ValLists
    \cup {PyDict(<<KV("mixed", l)>>) : l \in ValLists}
    \cup {PyDict(<<KV(key, x)>>) : key \in {"value", "1"}, x \in Leaves}
    \cup {PyDict(<<KV("name", PyStr("s")), KV("config", PyDict(<<KV(key, x)>>))>>) :
             key \in {"value", "2"}, x \in Leaves}
    \cup {PyList(<<PyDict(<<KV("value", x)>>), PyList(<<y>>)>>) :
             x \in Leaves, y \in ElemLeaves}
FormatTags ==
    FileFormats
    \cup {[k |-> "str", v |-> "json"], [k |-> "str", v |-> "csv"],
          [k |-> "NoneType", v |-> "None"], [k |-> "Enum", v |-> "csv"]}

\* what the files of a session hold, and what is typed at the prompt
CliTrees ==
    {PyDict(<<KV("users", PyList(<<RecN1, RecN2>>))>>),
     PyList(<<RecJohn, RecJane>>),
     PyInt(30),
     PyDict(<<KV("value", NaN)>>)}
Held == {Missing, Corrupt} \cup CliTrees
LoadFiles == {"", "a.json", "my data.json", "out.csv"}
SaveFiles == {"", "b.yaml", "out.toml", "out.xml", "out.csv"}
CliSources ==
    {<<"a.json">>, <<"a.json", "[", "users", "]">>,
     <<"a.json", "[", "users", ".", "*", "]">>}
CliDests == {<<"b.yaml">>, <<"out.toml">>, <<"out.xml">>, <<"out.csv">>}
CliWheres == {<<>>, <<"where", "age", "!=", "25">>}
CliQueries ==
    {<<"from">> \o sf \o <<"to">> \o df \o wc :
        sf \in CliSources, df \in CliDests, wc \in CliWheres}
    \cup {<<"from", "a.json">>,
          <<"from", "a.json", "to", "b.yaml", "where", "n", ">", "25">>}
SessionFiles == (LoadFiles \cup SaveFiles \cup {"temp.json"}) \ {""}
ConvertArgs ==
    {<<>>, <<"b.yaml">>} \cup {<<"to">> \o df \o wc : df \in CliDests, wc \in CliWheres}
ConvertQueries ==
    {<<"from">> \o FileText(f) \o cargs : f \in SessionFiles, cargs \in ConvertArgs}
\* lines typed at the prompt that are not queries: the documented helper
\* commands, in several cases, and a word that is no command
ReplCommands ==
    {<<"help">>, <<"clear">>, <<"exit">>, <<"EXIT">>, <<"Quit">>, <<"bye">>,
     <<"exit", "now">>, <<"load", "a.json">>, <<"Load", "a.json">>,
     <<"save", "b.yaml">>, <<"convert", "to", "b.yaml">>,
     <<"convert", "to", "b.yaml", "where", "age", "!=", "25">>,
     <<"show">>, <<"status">>, <<"validate">>, <<"frobnicate">>}
ReplLines == {<<>>} \cup ReplCommands \cup CliQueries
\* QueryParser.parse on the texts of the sessions
Parsed == [q \in CliQueries \cup ConvertQueries |-> parse(q)]


\* ------------------------------------------------------------------ state
VARIABLES fn, data, path, conditions, value, op, expected,
          pc, extracted, trace, result,
          text, rest, pstate, ast,
          file_format,
          current_file, current_data, current_format, calls, outcome, written, nops,
          validated, running, user_input, nreads

vars == <<fn, data, path, conditions, value, op, expected,
          pc, extracted, trace, result,
          text, rest, pstate, ast,
          file_format,
          current_file, current_data, current_format, calls, outcome, written, nops,
          validated, running, user_input, nreads>>

\* the parser is not running
ParserIdle ==
    /\ text = <<>> /\ rest = <<>> /\ pstate = "start" /\ ast = EmptyAst

\* no validation is asked for
NoFormat == [k |-> "NoneType", v |-> "None"]
ValidatorIdle == file_format = NoFormat

\* no session is open
cvars == <<current_file, current_data, current_format, calls, outcome, written, nops,
           validated, running, user_input, nreads>>
\* nothing has been read at the prompt
NoInput == [k |-> "none"]
CliIdle ==
    /\ current_file = "" /\ current_data = None /\ current_format = ""
    /\ calls = <<>> /\ outcome = "" /\ written = None /\ nops = 0
    /\ validated = None /\ running = TRUE /\ user_input = NoInput /\ nreads = 0

NoResult == [ok |-> FALSE, err |-> "none", msg |-> <<>>]

Idle ==
    /\ pc = "call"
    /\ extracted = None
    /\ trace = <<>>
    /\ result = NoResult

InitApplyPath ==
    /\ fn = "apply_path"
    /\ data \in Trees
    /\ path \in Paths
    /\ conditions = <<>>
    /\ value = None /\ op = "==" /\ expected = None
    /\ Idle
    /\ ParserIdle
    /\ ValidatorIdle
    /\ CliIdle

InitApplyConditions ==
    /\ fn = "apply_conditions"
    /\ data \in {PyList(l) : l \in SeqsUpTo(ItemPool, MaxRecs)}
                 \cup {RecJohn, PyInt(30), PyStr("x"), None}
    /\ path = None
    /\ conditions \in CondLists
    /\ value = None /\ op = "==" /\ expected = None
    /\ Idle
    /\ ParserIdle
    /\ ValidatorIdle
    /\ CliIdle

InitEvaluateCondition ==
    /\ fn = "evaluate_condition"
    /\ data = None /\ path = None /\ conditions = <<>>
    /\ value \in EvalValues
    /\ op \in Ops
    /\ expected \in EvalValues
    /\ Idle
    /\ ParserIdle
    /\ ValidatorIdle
    /\ CliIdle

InitProcessData ==
    /\ fn = "process_data"
    /\ data \in TreesSmall
    /\ path \in PathsSmall
    /\ conditions \in CondLists
    /\ value = None /\ op = "==" /\ expected = None
    /\ Idle
    /\ ParserIdle
    /\ ValidatorIdle
    /\ CliIdle

Init ==
    \/ InitApplyPath
    \/ InitApplyConditions
    \/ InitEvaluateCondition
    \/ InitProcessData

args == <<fn, data, path, conditions, value, op, expected, file_format>>
pvars == <<text, rest, pstate, ast>>

ApplyPath ==
    /\ fn = "apply_path" /\ pc = "call"
    /\ result' = apply_path(data, path)
    /\ pc' = "done"
    /\ UNCHANGED <<args, extracted, trace, pvars, cvars>>

ApplyConditions ==
    /\ fn = "apply_conditions" /\ pc = "call"
    /\ result' = apply_conditions(data, conditions)
    /\ pc' = "done"
    /\ UNCHANGED <<args, extracted, trace, pvars, cvars>>

EvaluateCondition ==
    /\ fn = "evaluate_condition" /\ pc = "call"
    /\ result' = evaluate_condition(value, op, expected)
    /\ pc' = "done"
    /\ UNCHANGED <<args, extracted, trace, pvars, cvars>>

\* process_data, step 1 (line 252): an exception of apply_path leaves
\* process_data at once
ProcessDataExtract ==
    /\ fn = "process_data" /\ pc = "call"
    /\ LET r == apply_path(data, path)
       IN  IF r.ok
           THEN /\ extracted' = r.val
                /\ pc' = "extracted"
                /\ result' = result
           ELSE /\ extracted' = extracted
                /\ pc' = "done"
                /\ result' = r
    /\ trace' = Append(trace, "apply_path")
    /\ UNCHANGED <<args, pvars, cvars>>

\* step 2 (lines 255-260), taken when the condition list is not empty
ProcessDataFilter ==
    /\ fn = "process_data" /\ pc = "extracted"
    /\ conditions # <<>>
    /\ extracted' = Coerce(extracted)
    /\ result' = apply_conditions(Coerce(extracted), conditions)
    /\ trace' = Append(trace, "apply_conditions")
    /\ pc' = "done"
    /\ UNCHANGED <<args, pvars, cvars>>

\* line 262 with an empty condition list
ProcessDataReturn ==
    /\ fn = "process_data" /\ pc = "extracted"
    /\ conditions = <<>>
    /\ result' = Return(extracted)
    /\ pc' = "done"
    /\ UNCHANGED <<args, extracted, trace, pvars, cvars>>

Next ==
    \/ ApplyPath
    \/ ApplyConditions
    \/ EvaluateCondition
    \/ ProcessDataExtract
    \/ ProcessDataFilter
    \/ ProcessDataReturn

Spec == Init /\ [][Next]_vars

\* ------------------------------------------------------ QueryParser.parse
InitParse ==
    /\ fn = "parse"
    /\ text \in Queries
    /\ rest = text
    /\ pstate = "start"
    /\ ast = EmptyAst
    /\ data = None /\ path = None /\ conditions = <<>>
    /\ value = None /\ op = "==" /\ expected = None
    /\ Idle
    /\ ValidatorIdle
    /\ CliIdle

Parsing == fn = "parse" /\ pc = "call"
NextToken == Scan(pstate, rest)
NextState == Goto(pstate, Len(ast.files), NextToken.type)
pargs == <<fn, text, data, path, conditions, value, op, expected, extracted, trace,
           file_format>>

ShiftTo(types) ==
    /\ NextToken.type \in types
    /\ NextState \notin {"error", "accept"}
    /\ rest' = NextToken.rest
    /\ pstate' = NextState
    /\ ast' = Shift(ast, pstate, NextToken)
    /\ UNCHANGED <<cvars, pargs, pc, result>>

\* the keywords of the query rule and of condition_list
ShiftKeyword ==
    /\ Parsing
    /\ pstate \in {"start", "after_file", "after_bracket", "after_value"}
    /\ ShiftTo({"FROM", "TO", "WHERE", "AND"})

\* file_path: FILE or ESCAPED_STRING
ShiftFile ==
    /\ Parsing
    /\ pstate = "file"
    /\ ShiftTo({"FILE", "ESCAPED_STRING"})

\* path_bracket and path_expression
ShiftPath ==
    /\ Parsing
    /\ pstate \in {"after_file", "path_first", "path_sep", "path_seg", "path_close"}
    /\ ShiftTo({"LSQB", "NAME", "DOT", "STAR", "RSQB"})

\* condition: field OP value
ShiftCondition ==
    /\ Parsing
    /\ pstate \in {"field", "op", "value"}
    /\ ShiftTo({"NAME", "OP", "ESCAPED_STRING", "SIGNED_NUMBER", "TRUE", "FALSE", "NULL"})

\* the input is a sentence: the tree is transformed and returned
\* (parser.py:217-219)
ParseReturn ==
    /\ Parsing
    /\ NextState = "accept"
    /\ result' = Return(query(ast))
    /\ pc' = "done"
    /\ UNCHANGED <<cvars, pargs, rest, pstate, ast>>

\* the lexer or the parser raises; parse wraps it (parser.py:220-222)
ParseRaise ==
    /\ Parsing
    /\ NextState = "error"
    /\ result' = Raise("ParseError", <<"Invalid query syntax: ", NextToken.type>>)
    /\ pc' = "done"
    /\ UNCHANGED <<cvars, pargs, rest, pstate, ast>>

NextParse ==
    \/ ShiftKeyword
    \/ ShiftFile
    \/ ShiftPath
    \/ ShiftCondition
    \/ ParseReturn
    \/ ParseRaise

SpecParse == InitParse /\ [][NextParse]_vars

\* ================================================================ claims
Done(f) == fn = f /\ pc = "done"

\* the record-sequence form of a path result, as the claim words it
RecordSequenceForm(x) ==
    IF x.k = "dict" THEN PyList(<<x>>)
    ELSE IF x.k = "list" THEN x
    ELSE PyList(<<>>)

\* C1: process_data evaluates the path first and only then filters: with
\* a non-empty condition list the result is apply_conditions of the path
\* result in record-sequence form, with an empty one it is the path
\* result itself; an exception of apply_path is the outcome
Thm_C1 ==
    /\ (fn = "process_data" /\ pc = "extracted") =>
          /\ trace = <<"apply_path">>
          /\ Return(extracted) = apply_path(data, path)
    /\ Done("process_data") =>
          LET p == apply_path(data, path)
          IN  /\ ~p.ok => (result = p /\ trace = <<"apply_path">>)
              /\ (p.ok /\ conditions # <<>>) =>
                    /\ trace = <<"apply_path", "apply_conditions">>
                    /\ result = apply_conditions(RecordSequenceForm(p.val), conditions)
              /\ (p.ok /\ conditions = <<>>) =>
                    /\ trace = <<"apply_path">>
                    /\ result = p

\* C1 witness: a lone dict found by the path was wrapped and kept by the filter
Wit_C1 ==
    /\ Done("process_data")
    /\ conditions # <<>>
    /\ path = PathStr(<<"users">>)
    /\ data = PyDict(<<KV("users", RecJohn)>>)
    /\ result = Return(PyList(<<RecJohn>>))

\* the value of a field of a record, null when the record lacks it
FieldOrNull(r, name) ==
    IF \E i \in 1..Len(r.v) : r.v[i].key = name
    THEN r.v[CHOOSE i \in 1..Len(r.v) : r.v[i].key = name].val
    ELSE None

AllRecords(d) == IsList(d) /\ \A i \in 1..Len(d.v) : IsDict(d.v[i])

\* C2: on a sequence of records and a non-empty condition list
\* apply_conditions returns exactly the records for which every condition
\* evaluates true, in their original order, a missing field counting as
\* null; with supported operators it never raises
Thm_C2 ==
    (Done("apply_conditions") /\ AllRecords(data) /\ conditions # <<>>) =>
        LET Keeps(r) ==
                \A i \in 1..Len(conditions) :
                    LET e == evaluate_condition(FieldOrNull(r, conditions[i].field.v),
                                                conditions[i].op, conditions[i].value)
                    IN  e.ok /\ e.val
        IN  /\ (\A i \in 1..Len(conditions) : conditions[i].op \in SupportedOps)
                  => result.ok
            /\ result.ok => result.val = PyList(SelectSeq(data.v, Keeps))

\* C2 witness: age >= 26 and active == true keeps the first of two records
Wit_C2 ==
    /\ Done("apply_conditions")
    /\ data = PyList(<<RecJohn, RecJane>>)
    /\ conditions = <<Condition(PyStr("age"), ">=", PyFloat(52)),
                      Condition(PyStr("active"), "==", PyBool(TRUE))>>
    /\ result = Return(PyList(<<RecJohn>>))

PathGiven == path.k = "path" /\ path.v # <<>>
Matches == JFind(data, JLex(<<"$", ".">> \o path.v))

\* C3: apply_path collapses by the number of matches: one match is
\* returned itself, two or more as a list in encounter order, none as an
\* empty list; a top-level key that is not in the tree gives the empty
\* list without raising
Thm_C3 ==
    /\ (Done("apply_path") /\ PathGiven /\ result.ok) =>
          /\ Len(Matches) = 1 => result.val = Matches[1]
          /\ Len(Matches) >= 2 => result.val = PyList(Matches)
          /\ Len(Matches) = 0 => result.val = PyList(<<>>)
    /\ (Done("apply_path") /\ PathGiven /\ Len(path.v) = 1
           /\ path.v[1] \in PathNames /\ ~HasKey(data, path.v[1])) =>
          result = Return(PyList(<<>>))

\* C3 witness: a single match that is itself a list comes back unwrapped
Wit_C3 ==
    /\ Done("apply_path")
    /\ path = PathStr(<<"users">>)
    /\ data = PyDict(<<KV("users", PyList(<<RecN1, RecN2>>))>>)
    /\ result = Return(PyList(<<RecN1, RecN2>>))

\* C4: for a path NAME.* whose focused value is a list of two or more
\* elements, apply_path returns exactly those elements in order
Cex_C4 ==
    (Done("apply_path") /\ PathGiven /\ Len(path.v) = 3
        /\ path.v[1] \in PathNames /\ path.v[2] = "." /\ path.v[3] = "*"
        /\ HasKey(data, path.v[1])
        /\ IsList(DictGet(data, path.v[1]))
        /\ Len(DictGet(data, path.v[1]).v) >= 2) =>
       result = Return(DictGet(data, path.v[1]))

\* C5: evaluate_condition raises ProcessorError whenever the operator is
\* not one of the six, whatever the operands
Cex_C5 ==
    (Done("evaluate_condition") /\ op \notin {"==", "!=", ">", "<", ">=", "<="}) =>
        (~result.ok /\ result.err = "ProcessorError")

IsNull(x) == x.k = "null"

Names(msg, expr) ==
    \E i \in 1..Len(msg) : SubSeq(msg, i, i + Len(expr) - 1) = expr

DotAt(p, i) == i >= 1 /\ i <= Len(p) /\ p[i] = "."
\* an empty segment: a leading dot, a trailing dot or two dots in a row
HasEmptySegment(p) ==
    DotAt(p, 1) \/ DotAt(p, Len(p)) \/ \E i \in 1..Len(p) : DotAt(p, i) /\ DotAt(p, i + 1)
WildcardNotFinal(p) == \E i \in 1..(Len(p) - 1) : p[i] = "*"
HasBracket(p) == \E i \in 1..Len(p) : p[i] = "["

\* C7 as stated: apply_path raises ProcessorError naming the expression
\* for every expression with an empty segment, a wildcard that is not the
\* final segment, or invalid text
Cex_C7 ==
    (Done("apply_path") /\ PathGiven
        /\ (HasEmptySegment(path.v) \/ WildcardNotFinal(path.v) \/ HasBracket(path.v))) =>
       (~result.ok /\ result.err = "ProcessorError" /\ Names(result.msg, path.v))

\* text that is not a JSONPath expression once "$." is put in front: an
\* opening bracket that is never closed, a dot at the end, or three dots
\* in a row
NotJsonPath(p) ==
    LET q == <<".">> \o p
    IN  \/ HasBracket(p)
        \/ DotAt(p, Len(p))
        \/ \E i \in 1..Len(q) : DotAt(q, i) /\ DotAt(q, i + 1) /\ DotAt(q, i + 2)

\* C7 amended: apply_path raises ProcessorError naming the expression
\* exactly for the texts that are not JSONPath expressions; a doubled dot
\* and a wildcard in the middle are JSONPath and are evaluated
Thm_C7 ==
    (Done("apply_path") /\ PathGiven) =>
        IF NotJsonPath(path.v)
        THEN ~result.ok /\ result.err = "ProcessorError" /\ Names(result.msg, path.v)
        ELSE result.ok

\* C7 witness: the doubled dot of a..n was evaluated as the descendant
\* operator, and (second conjunct aside) an unclosed bracket raised
Wit_C7 ==
    /\ Done("apply_path")
    /\ path = PathStr(<<"a", ".", ".", "n">>)
    /\ data = TreeNested
    /\ result = Return(PyList(<<PyInt(1), PyInt(2)>>))

\* the lexemes between the bracket opened at position i and its closing
BracketText(q, i) ==
    LET j == CHOOSE c \in (i + 1)..Len(q) :
                 q[c] = "]" /\ \A m \in (i + 1)..(c - 1) : q[m] # "]"
    IN  SubSeq(q, i + 1, j - 1)

\* C8: the path bracket of the source file is surfaced on the descriptor
\* as the path string exactly as the query writes it: the names joined
\* by dots, followed by .* when the wildcard is present
Cex_C8 ==
    (Done("parse") /\ result.ok /\ Len(text) >= 3 /\ text[3] = "[") =>
        result.val.source.path = PathStr(BracketText(text, 3))

\* the value a literal of the where clause stands for
LiteralValue(w) ==
    CASE w = "25" -> PyFloat(50)
      [] w = "30.5" -> PyFloat(61)
      [] w = "true" -> PyBool(TRUE)
      [] w = "false" -> PyBool(FALSE)
      [] w = "null" -> None
      [] w = "\"active\"" -> PyStr("active")

HasWhere(q) == \E i \in 1..Len(q) : q[i] = "where"
WherePos(q) == CHOOSE i \in 1..Len(q) : q[i] = "where"

\* C9: every condition NAME op value of the where clause parses, in
\* source order, to a Condition whose field is the NAME as a plain
\* string, whose op is the operator symbol and whose value is the
\* literal itself (a number as a double, a quoted string without its
\* quotes, true, false and null as the boolean and null values)
Cex_C9 ==
    (Done("parse") /\ result.ok /\ HasWhere(text)) =>
        LET w == WherePos(text)
            conds == result.val.conditions
        IN  /\ Len(conds) = (Len(text) - w + 1) \div 4
            /\ \A i \in 1..Len(conds) :
                  /\ conds[i].op = text[w + 4 * (i - 1) + 2]
                  /\ conds[i].field = PyStr(text[w + 4 * (i - 1) + 1])
                  /\ conds[i].value = LiteralValue(text[w + 4 * (i - 1) + 3])

IsPathSpec(x) == DOMAIN x = {"file", "path"}

\* C10: parse is all-or-nothing: a sentence of the grammar gives a
\* complete descriptor with nothing left unconsumed, every other text
\* (a missing from, to or destination, an unknown character, trailing
\* input) raises ParseError, and nothing is returned before the end
Thm_C10 ==
    /\ (fn = "parse" /\ pc = "call") => result = NoResult
    /\ Done("parse") =>
          IF text \in ValidQueries
          THEN /\ result.ok
               /\ rest = <<>>
               /\ DOMAIN result.val = {"source", "dest", "conditions"}
               /\ IsPathSpec(result.val.source)
               /\ IsPathSpec(result.val.dest)
          ELSE /\ ~result.ok
               /\ result.err = "ParseError"

\* C10 witness: input left after the destination raised ParseError
Wit_C10 ==
    /\ Done("parse")
    /\ text = <<"from", "a.json", "to", "b.yaml", "b.yaml">>
    /\ rest # <<>>
    /\ ~result.ok
    /\ result.err = "ParseError"

\* ---------------------------------------------------------------- validate
InitValidate ==
    /\ fn = "validate"
    /\ data \in ValTrees
    /\ file_format \in FormatTags
    /\ path = None /\ conditions = <<>>
    /\ value = None /\ op = "==" /\ expected = None
    /\ Idle
    /\ ParserIdle
    /\ CliIdle

Validate ==
    /\ fn = "validate" /\ pc = "call"
    /\ result' = validate(data, file_format)
    /\ pc' = "done"
    /\ UNCHANGED <<args, extracted, trace, pvars, cvars>>

NextValidate == Validate

SpecValidate == InitValidate /\ [][NextValidate]_vars

\* ---------------------------------------------------------- InteractiveCLI
\* InteractiveCLI.__init__ (cli.py:68-81); None is "" for the file and
\* the format, which are strings
InitCli ==
    /\ fn = "cli"
    /\ current_file = "" /\ current_data = None /\ current_format = ""
    /\ calls = <<>> /\ outcome = "" /\ written = None /\ nops = 0
    /\ validated = None /\ running = TRUE /\ user_input = NoInput /\ nreads = 0
    /\ data = None /\ path = None /\ conditions = <<>>
    /\ value = None /\ op = "==" /\ expected = None
    /\ Idle
    /\ ParserIdle
    /\ ValidatorIdle

\* a session open for one more operation
Prompt == fn = "cli" /\ nops < MaxOps

\* a handler called on the object, as the tests call it: the operation
\* is counted, the loop of run is not involved, and the rest of the state
\* is not the session's
CliFrame ==
    /\ nops' = nops + 1
    /\ UNCHANGED <<running, user_input, nreads>>
    /\ UNCHANGED <<args, pc, extracted, trace, result, pvars>>

\* the handler ends without a save: what it called and how it ended
Ends(c, how) ==
    /\ calls' = c
    /\ outcome' = how
    /\ written' = None
    /\ validated' = None
    /\ UNCHANGED <<current_data, current_file>>

\* a pipeline that records the data and the destination in the session
\* before the save is known to have succeeded
ValidateAndSave_updates_first(c, tree, dest_file, writable, on_error, updates) ==
    \E target_format \in {detect_format(dest_file)} :
        IF ~target_format.ok THEN Ends(c, on_error)
        ELSE \E validation_result \in {validate(tree, target_format.val).val} :
            LET c2 == Append(c, Call("validate", target_format.val.v,
                                     Len(validation_result.errors)))
                c3 == Append(c2, Call("smart_save", Extension(dest_file), 0))
                wrapped == WrapRoot(tree, target_format.val)
            IN  IF validation_result.errors # <<>>
                THEN /\ calls' = c2
                     /\ outcome' = "validation failed"
                     /\ written' = None
                     /\ validated' = tree
                     /\ UNCHANGED <<current_data, current_file>>
                ELSE /\ calls' = c3
                     /\ written' = wrapped
                     /\ validated' = tree
                     /\ outcome' = IF smart_save(dest_file, writable).ok
                                   THEN "saved" ELSE on_error
                     /\ IF updates
                        THEN /\ current_data' = wrapped
                             /\ current_file' = dest_file
                        ELSE UNCHANGED <<current_data, current_file>>
\* validation, wrapping and saving, common to _execute_query
\* (cli.py:188-217) and _cmd_convert (cli.py:341-378); only the query
\* updates the session after the save (cli.py:219-221)
ValidateAndSave(c, tree, dest_file, writable, on_error, updates) ==
    \E target_format \in {detect_format(dest_file)} :
        IF ~target_format.ok THEN Ends(c, on_error)
        ELSE \E validation_result \in {validate(tree, target_format.val).val} :
            LET c2 == Append(c, Call("validate", target_format.val.v,
                                     Len(validation_result.errors)))
                c3 == Append(c2, Call("smart_save", Extension(dest_file), 0))
                wrapped == WrapRoot(tree, target_format.val)
            IN  IF validation_result.errors # <<>>
                THEN /\ calls' = c2
                     /\ outcome' = "validation failed"
                     /\ written' = None
                     /\ validated' = tree
                     /\ UNCHANGED <<current_data, current_file>>
                ELSE /\ calls' = c3
                     /\ written' = wrapped
                     /\ validated' = tree
                     /\ IF ~smart_save(dest_file, writable).ok
                        THEN /\ outcome' = on_error
                             /\ UNCHANGED <<current_data, current_file>>
                        ELSE /\ outcome' = "saved"
                             /\ IF updates
                                THEN /\ current_data' = wrapped
                                     /\ current_file' = dest_file
                                ELSE UNCHANGED <<current_data, current_file>>

\* InteractiveCLI._execute_query (cli.py:158-231) on a query, with what
\* the source file holds and whether the destination can be written:
\* every exception is caught and printed, current_format is not assigned
execute_query(query_text, held, writable) ==
    /\ \E parsed_query \in {Parsed[query_text]} :
          IF ~parsed_query.ok THEN Ends(<<>>, "parse error")
          ELSE
          \E loaded \in {smart_load(parsed_query.val.source.file, held)} :
          LET source_path == parsed_query.val.source.path
              conds == parsed_query.val.conditions
              c1 == <<Call("smart_load", parsed_query.val.source.file, 0)>>
          IN  IF ~loaded.ok THEN Ends(c1, "error")
              ELSE
              \E filtered \in {query_data(loaded.val, source_path, conds)} :
                 IF ~filtered.ok THEN Ends(c1, "error")
                 ELSE ValidateAndSave(c1, filtered.val, parsed_query.val.dest.file,
                                      writable, "error", TRUE)
    /\ UNCHANGED current_format

\* _execute_query called on the object
ExecuteQuery ==
    /\ Prompt
    /\ \E query_text \in CliQueries, held \in Held, writable \in BOOLEAN :
          execute_query(query_text, held, writable)
    /\ CliFrame

\* InteractiveCLI._cmd_load (cli.py:233-262)
CmdLoad ==
    /\ Prompt
    /\ \E file \in LoadFiles, held \in Held :
          IF file = "" THEN Ends(<<>>, "usage") /\ UNCHANGED current_format
          ELSE IF held = Missing
          THEN Ends(<<>>, "not found") /\ UNCHANGED current_format
          ELSE \E loaded \in {smart_load(file, held)} :
               IF ~loaded.ok
               THEN /\ Ends(<<Call("smart_load", file, 0)>>, "io error")
                    /\ UNCHANGED current_format
               ELSE /\ calls' = <<Call("smart_load", file, 0)>>
                    /\ outcome' = "loaded"
                    /\ written' = None
                    /\ validated' = None
                    /\ current_data' = loaded.val
                    /\ current_file' = file
                    /\ current_format' = detect_format(file).val.v
    /\ CliFrame

\* InteractiveCLI._cmd_save (cli.py:264-284)
CmdSave ==
    /\ Prompt
    /\ \E file \in SaveFiles, writable \in BOOLEAN :
          IF file = "" THEN Ends(<<>>, "usage")
          ELSE IF current_data = None THEN Ends(<<>>, "no data")
          ELSE /\ calls' = <<Call("smart_save", Extension(file), 0)>>
               /\ written' = current_data
               /\ validated' = None
               /\ outcome' = IF smart_save(file, writable).ok THEN "saved"
                             ELSE "io error"
               /\ UNCHANGED <<current_data, current_file>>
    /\ UNCHANGED current_format
    /\ CliFrame

\* InteractiveCLI._cmd_convert (cli.py:286-392); process_data is not a
\* name of cli.py (cli.py:32 imports apply_path and apply_conditions
\* only), so the call at cli.py:336 raises NameError, which no except
\* clause of the handler catches
CmdConvert ==
    /\ Prompt
    /\ \E cargs \in ConvertArgs, writable \in BOOLEAN :
          IF cargs = <<>> THEN Ends(<<>>, "usage")
          ELSE IF current_data = None THEN Ends(<<>>, "no data")
          ELSE IF Head(cargs) # "to" THEN Ends(<<>>, "usage")
          ELSE
          LET source_file == IF current_file = "" THEN "temp.json" ELSE current_file
          IN  \E parsed_query \in {Parsed[<<"from">> \o FileText(source_file) \o cargs]} :
                 IF ~parsed_query.ok THEN Ends(<<>>, "parse error")
                 ELSE IF Truthy(parsed_query.val.source.path)
                         \/ parsed_query.val.conditions # <<>>
                 THEN Ends(<<>>, "NameError")
                 ELSE ValidateAndSave(<<>>, current_data, parsed_query.val.dest.file,
                                      writable, "io error", FALSE)
    /\ UNCHANGED current_format
    /\ CliFrame

NextCli ==
    \/ ExecuteQuery
    \/ CmdLoad
    \/ CmdSave
    \/ CmdConvert

SpecCli == InitCli /\ [][NextCli]_vars

\* ------------------------------------------------------ InteractiveCLI.run
\* a first word taken as it is typed
Lower_as_typed(word) == word
\* str.lower on the first word of a line
Lower(word) ==
    CASE word = "EXIT" -> "exit"
      [] word = "Quit" -> "quit"
      [] word = "Load" -> "load"
      [] OTHER -> word

\* what input() returns or raises
Line(words) == [k |-> "line", v |-> words]
EOFError == [k |-> "EOFError"]
KeyboardInterrupt == [k |-> "KeyboardInterrupt"]

\* InteractiveCLI._cmd_exit (cli.py:519-526)
cmd_exit ==
    /\ running' = FALSE
    /\ Ends(<<>>, "goodbye")
    /\ UNCHANGED current_format

\* InteractiveCLI._execute_command (cli.py:122-156): a line that starts
\* with from is a query; otherwise its first word, in lower case, is
\* looked up in the five entries of the commands dict
execute_command(words, held, writable) ==
    IF Lower(Head(words)) = "from"
    THEN execute_query(words, held, writable) /\ UNCHANGED running
    ELSE LET command == Lower(Head(words))
         IN  IF command \in {"exit", "quit", "bye"} THEN cmd_exit
             ELSE IF command \in {"help", "clear"}
             THEN /\ Ends(<<>>, command)
                  /\ UNCHANGED <<current_format, running>>
             ELSE /\ Ends(<<>>, "unknown command")
                  /\ UNCHANGED <<current_format, running>>

\* one more line has been asked for at the prompt
ReplFrame ==
    /\ nops' = nops + 1
    /\ nreads' = nreads + 1
    /\ UNCHANGED <<args, pc, extracted, trace, result, pvars>>

\* run (cli.py:86-97): input() returns a line, which is stripped,
\* skipped when empty and executed otherwise
ReadLine ==
    /\ Prompt
    /\ running
    /\ \E words \in ReplLines :
          /\ user_input' = Line(words)
          /\ IF words = <<>>
             THEN Ends(<<>>, "") /\ UNCHANGED <<current_format, running>>
             ELSE \E held \in (IF words \in CliQueries THEN Held ELSE {Missing}),
                     writable \in (IF words \in CliQueries THEN BOOLEAN ELSE {TRUE}) :
                     execute_command(words, held, writable)
    /\ ReplFrame

\* run (cli.py:98-99): Ctrl-C at the prompt
ReadInterrupt ==
    /\ Prompt
    /\ running
    /\ user_input' = KeyboardInterrupt
    /\ Ends(<<>>, "interrupt")
    /\ UNCHANGED <<current_format, running>>
    /\ ReplFrame

\* run (cli.py:100-101): end of input at the prompt
ReadEof ==
    /\ Prompt
    /\ running
    /\ user_input' = EOFError
    /\ cmd_exit
    /\ ReplFrame

NextRepl ==
    \/ ReadLine
    \/ ReadInterrupt
    \/ ReadEof

SpecRepl == InitCli /\ [][NextRepl]_vars

\* the file name a file word of the query stands for
FileName(w) == IF w = "\"my data.json\"" THEN "my data.json" ELSE w
ToPos(q) == CHOOSE i \in 1..Len(q) : q[i] = "to"
BracketAt(q, i) == i <= Len(q) /\ q[i] = "["

\* C11: an accepted query carries the two file names on source and dest,
\* path is null for a file written without a path bracket, and a query
\* without a where clause has an empty conditions list
Thm_C11 ==
    (Done("parse") /\ result.ok) =>
        LET q == result.val
            t == ToPos(text)
        IN  /\ q.source.file = FileName(text[2])
            /\ q.dest.file = FileName(text[t + 1])
            /\ ~BracketAt(text, 3) => q.source.path = None
            /\ ~BracketAt(text, t + 2) => q.dest.path = None
            /\ ~HasWhere(text) => q.conditions = <<>>

\* C11 witness: from a.json to b.yaml parsed to the bare descriptor
Wit_C11 ==
    /\ Done("parse")
    /\ text = <<"from", "a.json", "to", "b.yaml">>
    /\ result = Return([source |-> [file |-> "a.json", path |-> None],
                        dest |-> [file |-> "b.yaml", path |-> None],
                        conditions |-> <<>>])

\* the sequence apply_conditions is said to filter in place of a
\* non-sequence input
Wrapped(d) == IF IsDict(d) THEN PyList(<<d>>) ELSE PyList(<<>>)

\* C19: on a non-sequence input apply_conditions behaves, for every
\* condition list, as on the wrapped input (a lone mapping as a
\* one-element sequence, anything else as the empty sequence), so the
\* value it returns is always a sequence
Cex_C19 ==
    (Done("apply_conditions") /\ ~IsList(data)) =>
        /\ result.ok => IsList(result.val)
        /\ result = apply_conditions(Wrapped(data), conditions)

\* C20: an empty condition list applied to a record sequence returns
\* the identical sequence: same elements, same order
Thm_C20 ==
    (Done("apply_conditions") /\ conditions = <<>> /\ IsList(data)) =>
        result = Return(data)

\* C20 witness: two items, one of them not a record, passed through
Wit_C20 ==
    /\ Done("apply_conditions")
    /\ conditions = <<>>
    /\ data = PyList(<<RecJohn, PyInt(30)>>)
    /\ result = Return(data)

Tag(name) == file_format = FileFormat(name)
Clean(r) == r.errors = <<>> /\ r.warnings = <<>>

\* C13: validate dispatches on the format tag to the validator of that
\* format and raises ValidationError for every tag outside json, toml,
\* yaml, xml
Cex_C13 ==
    Done("validate") =>
        IF file_format \in FileFormats
        THEN /\ result.ok
             /\ Tag("json") => result.val = JSONValidator_validate(data)
             /\ Tag("toml") => result.val = TOMLValidator_validate(data)
             /\ Tag("yaml") => result.val = YAMLValidator_validate(data)
             /\ Tag("xml") => result.val = XMLValidator_validate(data)
        ELSE /\ ~result.ok
             /\ result.err = "ValidationError"

\* the paths of the non-finite floats of a tree, and its leaves
RECURSIVE NonFinitePaths(_, _)
NonFinitePaths(t, p) ==
    IF t.k \in {"nan", "inf"} THEN {p}
    ELSE IF IsDict(t)
    THEN UNION {NonFinitePaths(t.v[i].val, p \o <<".", t.v[i].key>>) :
                   i \in 1..Len(t.v)}
    ELSE IF IsList(t)
    THEN UNION {NonFinitePaths(t.v[i], p \o <<"[", IndexStr(i - 1), "]">>) :
                   i \in 1..Len(t.v)}
    ELSE {}

At(issues, p) == SelectSeq(issues, LAMBDA x : x.path = p)
About(issues, m) == SelectSeq(issues, LAMBDA x : x.message = m)

\* C14: the validators with a finiteness rule (JSON, TOML, YAML) report
\* every non-finite float of a tree by exactly one error at the path of
\* that float, and never by a warning
Thm_C14 ==
    (Done("validate") /\ result.ok /\ ~Tag("xml")) =>
        LET nf == NonFinitePaths(data, <<"$">>)
            r == result.val
        IN  /\ \A p \in nf :
                  /\ Len(At(r.errors, p)) = 1
                  /\ At(r.errors, p)[1].message = "non-finite float"
                  /\ At(r.warnings, p) = <<>>
            /\ About(r.warnings, "non-finite float") = <<>>
            /\ \A i \in 1..Len(r.errors) :
                  r.errors[i].message = "non-finite float" => r.errors[i].path \in nf

\* C14 witness: {"value": nan} under the JSON validator
Wit_C14 ==
    /\ Done("validate")
    /\ Tag("json")
    /\ data = PyDict(<<KV("value", NaN)>>)
    /\ result = Return([errors |-> <<ValidationIssue(<<"$", ".", "value">>,
                                                     "non-finite float", "error")>>,
                        warnings |-> <<>>])

\* the paths of the sequences whose elements are not all of one kind
Mixed(items) ==
    \E i, j \in 1..Len(items) : TypeOf(items[i]) # TypeOf(items[j])
RECURSIVE MixedPaths(_, _)
MixedPaths(t, p) ==
    IF IsDict(t)
    THEN UNION {MixedPaths(t.v[i].val, p \o <<".", t.v[i].key>>) : i \in 1..Len(t.v)}
    ELSE IF IsList(t)
    THEN (IF Mixed(t.v) THEN {p} ELSE {})
         \cup UNION {MixedPaths(t.v[i], p \o <<"[", IndexStr(i - 1), "]">>) :
                        i \in 1..Len(t.v)}
    ELSE {}

\* C15: TOMLValidator warns, and never reports an error, at the path of
\* every sequence whose elements are not all of one kind, warns about no
\* other sequence, and a tree with only such warnings stays valid
Cex_C15 ==
    (Done("validate") /\ result.ok /\ Tag("toml")) =>
        LET r == result.val
        IN  /\ {r.warnings[i].path : i \in 1..Len(r.warnings)}
                  = MixedPaths(data, <<"$">>)
            /\ About(r.errors, "not the same type") = <<>>
            /\ r.errors = <<>> => is_valid(r)

\* C16: under YAMLValidator every null, bool, integer, string, date,
\* time, date-time and decimal leaf passes with no error and no warning,
\* and so does every leaf that JSONValidator or TOMLValidator accepts
Cex_C16 ==
    (Done("validate") /\ result.ok /\ Tag("yaml") /\ data \in Leaves) =>
        /\ TypeOf(data) \in {"NoneType", "bool", "int", "str", "date", "time",
                             "datetime", "Decimal"} => Clean(result.val)
        /\ is_valid(JSONValidator_validate(data)) => is_valid(result.val)
        /\ is_valid(TOMLValidator_validate(data)) => is_valid(result.val)

RECURSIVE HasNonStringKey(_)
HasNonStringKey(t) ==
    IF IsDict(t)
    THEN \E i \in 1..Len(t.v) : ~IsStrKey(t.v[i].key) \/ HasNonStringKey(t.v[i].val)
    ELSE IF IsList(t) THEN \E i \in 1..Len(t.v) : HasNonStringKey(t.v[i])
    ELSE FALSE

RECURSIVE LeafSet(_)
LeafSet(t) ==
    IF IsDict(t) THEN UNION {LeafSet(t.v[i].val) : i \in 1..Len(t.v)}
    ELSE IF IsList(t) THEN UNION {LeafSet(t.v[i]) : i \in 1..Len(t.v)}
    ELSE {t}

\* null, bools, integers, strings and finite floats
PlainLeaves(t) ==
    \A x \in LeafSet(t) : x.k \in {"null", "bool", "int", "str", "float"}

\* C17: a non-string key makes the result of JSONValidator,
\* TOMLValidator and XMLValidator invalid; YAMLValidator only warns, and
\* a tree with no other fault stays valid with a non-empty warnings list
Thm_C17 ==
    (Done("validate") /\ result.ok /\ HasNonStringKey(data)) =>
        LET r == result.val
        IN  IF Tag("yaml")
            THEN /\ About(r.warnings, "non-string key") # <<>>
                 /\ About(r.errors, "non-string key") = <<>>
                 /\ PlainLeaves(data) => is_valid(r)
            ELSE /\ ~is_valid(r)
                 /\ About(r.errors, "non-string key") # <<>>
                 /\ About(r.warnings, "non-string key") = <<>>

\* C17 witness: {1: "s"} is valid YAML with one warning
Wit_C17 ==
    /\ Done("validate")
    /\ Tag("yaml")
    /\ data = PyDict(<<KV("1", PyStr("s"))>>)
    /\ is_valid(result.val)
    /\ result.val.warnings =
           <<ValidationIssue(<<"$">>, "non-string key", "warning")>>

\* C18: JSONValidator never produces a warning, and it finds nothing in
\* a tree of nulls, bools, integers, strings, finite floats, mappings
\* with string keys and sequences
Thm_C18 ==
    (Done("validate") /\ result.ok /\ Tag("json")) =>
        /\ result.val.warnings = <<>>
        /\ (PlainLeaves(data) /\ ~HasNonStringKey(data)) => Clean(result.val)

\* C18 witness: a nested mapping with a finite float passes
Wit_C18 ==
    /\ Done("validate")
    /\ Tag("json")
    /\ data = PyDict(<<KV("name", PyStr("s")),
                       KV("config", PyDict(<<KV("value", PyFloat(3))>>))>>)
    /\ Clean(result.val)

\* C12: in every operation that writes a file (query, convert, save)
\* smart_save is called only after validate has returned no errors for
\* the same format, and a validation with errors is followed by no save
Cex_C12 ==
    fn = "cli" =>
        \A i \in 1..Len(calls) :
            /\ calls[i].fn = "smart_save" =>
                  \E j \in 1..(i - 1) :
                      /\ calls[j].fn = "validate"
                      /\ calls[j].arg = calls[i].arg
                      /\ calls[j].errors = 0
            /\ (calls[i].fn = "validate" /\ calls[i].errors > 0) =>
                  \A j \in (i + 1)..Len(calls) : calls[j].fn # "smart_save"

\* the numeric value of an int or a float, in halves
IsIntOrFloat(x) == x.k \in {"int", "float"}
Halves(x) == IF x.k = "int" THEN x.v + x.v ELSE x.v
\* the comparison of two numbers that an operator names
Compare(o, x, y) ==
    CASE o = "==" -> x = y
      [] o = "!=" -> x # y
      [] o = ">" -> x > y
      [] o = "<" -> x < y
      [] o = ">=" -> x >= y
      [] o = "<=" -> x <= y

\* C21: two numeric operands are compared by numeric value under each of
\* the six operators, whatever mix of int and float they are; so
\* 30 == 30.0, 30.5 > 30 and 25 < 25.5 are true
Thm_C21 ==
    /\ (Done("evaluate_condition") /\ op \in SupportedOps
            /\ IsIntOrFloat(value) /\ IsIntOrFloat(expected)) =>
          result = Return(Compare(op, Halves(value), Halves(expected)))
    /\ (Done("evaluate_condition") /\ value = PyInt(30) /\ op = "=="
            /\ expected = PyFloat(60)) => result = Return(TRUE)
    /\ (Done("evaluate_condition") /\ value = PyFloat(61) /\ op = ">"
            /\ expected = PyInt(30)) => result = Return(TRUE)
    /\ (Done("evaluate_condition") /\ value = PyInt(25) /\ op = "<"
            /\ expected = PyFloat(51)) => result = Return(TRUE)

\* C21 witness: 30.5 > 30 has been evaluated to true
Wit_C21 ==
    /\ Done("evaluate_condition")
    /\ value = PyFloat(61) /\ op = ">" /\ expected = PyInt(30)
    /\ result = Return(TRUE)

\* two non-null operands whose types do not order: a str with a number,
\* a dict with anything
Incompatible(a, b) ==
    /\ ~IsNull(a) /\ ~IsNull(b)
    /\ \/ a.k = "str" /\ IsNumber(b)
       \/ IsNumber(a) /\ b.k = "str"
       \/ a.k = "dict"
       \/ b.k = "dict"
\* native equality of such operands: values of different types are
\* unequal, two dicts are equal when they hold the same items
SameValue(a, b) == a.k = b.k /\ a = b

\* C22: on non-null operands of incompatible types the four ordering
\* operators yield false, == and != are native equality and its negation,
\* and nothing is raised
Thm_C22 ==
    (Done("evaluate_condition") /\ op \in SupportedOps
        /\ Incompatible(value, expected)) =>
        /\ result.ok
        /\ result.val = (IF op = "==" THEN SameValue(value, expected)
                         ELSE IF op = "!=" THEN ~SameValue(value, expected)
                         ELSE FALSE)

\* C22 witness: a dict ordered against a dict has been evaluated to false
Wit_C22 ==
    /\ Done("evaluate_condition")
    /\ value = PyDict(<<>>) /\ op = "<=" /\ expected = PyDict(<<KV("n", PyInt(1))>>)
    /\ result = Return(FALSE)

\* the number a bool, an int or a float stands for, in halves
AsNumber(x) == IF x.k = "bool" THEN (IF x.v THEN 2 ELSE 0) ELSE Halves(x)
\* the field of a record stands for the number one
FieldIsOne(r, name) ==
    /\ IsDict(r)
    /\ IsNumber(DictGet(r, name))
    /\ AsNumber(DictGet(r, name)) = 2

\* C30: a bool operand compared with a number or a bool counts as 1 or 0
\* (true == 1, false == 0, true > 0), and filtering on field == 1 keeps
\* the records whose field is true
Thm_C30 ==
    /\ (Done("evaluate_condition") /\ op \in SupportedOps
            /\ IsNumber(value) /\ IsNumber(expected)
            /\ (value.k = "bool" \/ expected.k = "bool")) =>
          result = Return(Compare(op, AsNumber(value), AsNumber(expected)))
    /\ (Done("apply_conditions") /\ IsList(data)
            /\ conditions = <<Condition(PyStr("active"), "==", PyFloat(2))>>) =>
          result = Return(PyList(SelectSeq(data.v,
                                 LAMBDA r : FieldIsOne(r, "active"))))

\* C30 witness: of a record with active true and a record with active
\* false, the filter active == 1 has kept the first
Wit_C30 ==
    /\ Done("apply_conditions")
    /\ conditions = <<Condition(PyStr("active"), "==", PyFloat(2))>>
    /\ data = PyList(<<RecJohn, RecBob>>)
    /\ result = Return(PyList(<<RecJohn>>))

\* C26: for a non-empty condition list the data the query path of the CLI
\* obtains is what process_data returns for the same tree, path and
\* conditions; a path result that is a lone dict is filtered as one
\* record and any other path result that is not a list yields the empty
\* list
Thm_C26 ==
    (Done("process_data") /\ conditions # <<>>) =>
        /\ query_data(data, path, conditions) = result
        /\ LET e == apply_path(data, path)
           IN  (e.ok /\ ~IsList(e.val)) =>
                   result = (IF IsDict(e.val)
                             THEN apply_conditions(PyList(<<e.val>>), conditions)
                             ELSE Return(PyList(<<>>)))

\* C26 witness: the path users of {"users": 30} results in the scalar 30,
\* and both filter it to the empty list
Wit_C26 ==
    /\ Done("process_data")
    /\ conditions # <<>>
    /\ data = PyDict(<<KV("users", PyInt(30))>>)
    /\ apply_path(data, path) = Return(PyInt(30))
    /\ result = Return(PyList(<<>>))
    /\ query_data(data, path, conditions) = Return(PyList(<<>>))

\* the orders a sequence of n elements can be given
Orders(n) ==
    {f \in [1..n -> 1..n] : \A i, j \in 1..n : f[i] = f[j] => i = j}
Permuted(items, f) == [i \in 1..Len(items) |-> items[f[i]]]
WarnedAt(r, p) == At(r.warnings, p) # <<>>

\* C29: whether TOMLValidator warns at the path of a sequence does not
\* depend on the order of its elements: every permutation of the sequence
\* gets the warning iff the sequence gets it
Cex_C29 ==
    (Done("validate") /\ result.ok /\ Tag("toml") /\ IsList(data)) =>
        \A f \in Orders(Len(data.v)) :
            WarnedAt(TOMLValidator_validate(PyList(Permuted(data.v, f))), <<"$">>)
                = WarnedAt(result.val, <<"$">>)

\* the position of the call of a collaborator in the last operation
CallsOf(name) == {i \in 1..Len(calls) : calls[i].fn = name}
\* the root the claims require for data saved under a format name
RootFor(d, format_name) ==
    IF IsList(d) /\ format_name = "toml" THEN PyDict(<<KV("root", d)>>)
    ELSE IF IsList(d) /\ format_name = "xml"
    THEN PyDict(<<KV("root", PyDict(<<KV("item", d)>>))>>)
    ELSE d

\* C23: what a handler hands to smart_save is the data it was about to
\* save (the validated data, or the session's data when the handler
\* validates nothing) with a list root wrapped as {"root": list} for TOML
\* and {"root": {"item": list}} for XML and every other root unchanged;
\* the validator has seen the data before the wrapping
Cex_C23 ==
    fn = "cli" =>
        \A i \in CallsOf("smart_save") :
            LET about_to_be_saved ==
                    IF CallsOf("validate") # {} THEN validated ELSE current_data
            IN  /\ written = RootFor(about_to_be_saved, calls[i].arg)
                /\ \A j \in CallsOf("validate") : j < i

\* C27: in every session state with a current file, current_format is
\* the format name of that file's extension
Cex_C27 ==
    (fn = "cli" /\ current_file # "") => current_format = Extension(current_file)

\* the helper commands the module documents besides help, exit and clear
Documented == {"load", "save", "convert", "show", "status", "validate"}
LineOf(u, command) ==
    /\ u.k = "line"
    /\ u.v # <<>>
    /\ Head(u.v) \in {command}

\* C24: a documented helper command typed at the prompt reaches its
\* handler: it is never answered as an unknown command, load of a file
\* ends as a load does, with the file's data in the session on success,
\* and convert ends as a conversion does
Cex_C24 ==
    /\ (\E command \in Documented : LineOf(user_input, command)) =>
          outcome # "unknown command"
    /\ LineOf(user_input, "load") =>
          /\ outcome \in {"loaded", "not found", "io error"}
          /\ outcome = "loaded" =>
                (current_file = user_input.v[2] /\ current_data # None)
    /\ LineOf(user_input, "convert") =>
          outcome \in {"saved", "no data", "validation failed", "io error"}

\* the inputs that end the loop: end of input, and exit, quit or bye in
\* any case, with or without further words
ExitWords == {"exit", "EXIT", "quit", "Quit", "bye"}
IsExit(u) == u = EOFError \/ (\E w \in ExitWords : LineOf(u, w))

\* C25: running is True until an input is read, turns False in the very
\* step that reads exit, quit, bye (in any case) or end of input and in
\* no other step, never turns True again, and once it is False nothing
\* more is read
Thm_C25 ==
    /\ [](nreads = 0 => running)
    /\ [][/\ (running /\ nreads' # nreads) => (running' <=> ~IsExit(user_input'))
          /\ ~running => (~running' /\ nreads' = nreads /\ user_input' = user_input)
         ]_vars

\* C25 witness: a failing query, an interrupt or an unknown command has
\* left the loop running, and then EXIT has ended it
Wit_C25 ==
    /\ ~running
    /\ nreads = 2
    /\ user_input = Line(<<"EXIT">>)
    /\ outcome = "goodbye"

\* a query has just been read and executed
QueryRead(u) == LineOf(u, "from")

\* C28: a query that does not end in a successful save leaves
\* current_data, current_file and current_format as they were and ends
\* in a printed error, never in an exception; a query changes the session
\* only when its last call, smart_save, has succeeded
Thm_C28 ==
    [][(nreads' # nreads /\ QueryRead(user_input')) =>
          /\ outcome' \in {"saved", "parse error", "error", "validation failed"}
          /\ outcome' # "saved" =>
                UNCHANGED <<current_data, current_file, current_format>>
          /\ outcome' = "saved" =>
                /\ calls'[Len(calls')].fn = "smart_save"
                /\ current_file' # ""
          /\ running' = running
      ]_vars

\* C28 witness: after a query that saved to b.yaml, a query whose data
\* does not validate has left the session on b.yaml
Wit_C28 ==
    /\ nreads = 2
    /\ QueryRead(user_input)
    /\ outcome = "validation failed"
    /\ current_file = "b.yaml"
    /\ current_data # None

====
